---- MODULE Spec2Model ----
(***************************************************************************)
(* A model of clean.py: clean_data(input_file, output_file, log_errors,    *)
(* debug_mode, email_only), the CSV contact-list cleaner.                  *)
(*                                                                         *)
(* Text is modelled as a tuple of one-character strings, so that strip,    *)
(* lower, split, the regular expressions and the substring tests are       *)
(* computed character by character as Python computes them.                *)
(***************************************************************************)
EXTENDS Integers, Sequences, FiniteSets, TLC

(* ------------------------------ bounds --------------------------------- *)

\* Largest number of data rows of an input file.
MaxRows == 2

\* Longest address string handed to clean_address when it is checked alone.
MaxAddrLen == 5

(* ------------------------------ characters ----------------------------- *)

UpperChars == <<"A", "B", "C", "D", "E", "F", "G", "H", "I", "J", "K", "L", "M", "N", "O", "P", "Q", "R", "S", "T", "U", "V", "W", "X", "Y", "Z">>

LowerChars == <<"a", "b", "c", "d", "e", "f", "g", "h", "i", "j", "k", "l", "m", "n", "o", "p", "q", "r", "s", "t", "u", "v", "w", "x", "y", "z">>

Letters == {UpperChars[i] : i \in 1..26} \cup {LowerChars[i] : i \in 1..26}

Digits == {"0", "1", "2", "3", "4", "5", "6", "7", "8", "9"}

\* The characters str.strip(), str.split() and the regex class \s treat as
\* whitespace (those that occur in the model's texts).
Whitespace == {" ", "\t", "\n"}

\* str.lower() on one character.
LowerChar(c) ==
    IF \E i \in 1..26 : UpperChars[i] = c
    THEN LowerChars[CHOOSE i \in 1..26 : UpperChars[i] = c]
    ELSE c

\* str.upper() on one character.
UpperChar(c) ==
    IF \E i \in 1..26 : LowerChars[i] = c
    THEN UpperChars[CHOOSE i \in 1..26 : LowerChars[i] = c]
    ELSE c

(* ------------------------------ str methods ---------------------------- *)

lower(s) == [i \in 1..Len(s) |-> LowerChar(s[i])]

RECURSIVE lstrip(_)
lstrip(s) ==
    IF s # <<>> /\ Head(s) \in Whitespace THEN lstrip(Tail(s)) ELSE s

RECURSIVE rstrip(_)
rstrip(s) ==
    IF s # <<>> /\ s[Len(s)] \in Whitespace
    THEN rstrip(SubSeq(s, 1, Len(s) - 1))
    ELSE s

strip(s) == rstrip(lstrip(s))

\* The leading run of non-whitespace characters of s.
RECURSIVE FirstWord(_)
FirstWord(s) ==
    IF s = <<>> \/ Head(s) \in Whitespace
    THEN <<>>
    ELSE <<Head(s)>> \o FirstWord(Tail(s))

\* str.split() with no separator: the maximal whitespace-free words.
RECURSIVE split(_)
split(s) ==
    LET t == lstrip(s)
        w == FirstWord(t)
    IN  IF t = <<>>
        THEN <<>>
        ELSE <<w>> \o split(SubSeq(t, Len(w) + 1, Len(t)))

\* ' '.join(words)
RECURSIVE join(_)
join(words) ==
    IF words = <<>> THEN <<>>
    ELSE IF Len(words) = 1 THEN words[1]
    ELSE words[1] \o <<" ">> \o join(Tail(words))

\* str.capitalize(): first character upper-cased, the rest lower-cased.
capitalize(w) ==
    [i \in 1..Len(w) |-> IF i = 1 THEN UpperChar(w[i]) ELSE LowerChar(w[i])]

\* term in s
Contains(s, term) ==
    \E i \in 1..(Len(s) - Len(term) + 1) : SubSeq(s, i, i + Len(term) - 1) = term

(* ------------------------------ missing values ------------------------- *)

\* A cell holding the float NaN.  It is a tuple that is no text (its one
\* element is not a character), so it compares unequal to every string.
NaN == <<"float:nan">>

\* pd.isna(x)
isna(x) == x = NaN

\* The string 'nan'.
NanStr == <<"n", "a", "n">>

(* ------------------------------ is_valid_email ------------------------- *)

\* [a-zA-Z0-9._%+-]
LocalChars == Letters \cup Digits \cup {".", "_", "%", "+", "-"}

\* [a-zA-Z0-9.-]
DomainChars == Letters \cup Digits \cup {".", "-"}

AllIn(s, class) == \A i \in 1..Len(s) : s[i] \in class

\* s is matched in full by [a-zA-Z0-9._%+-]+@[a-zA-Z0-9.-]+\.[a-zA-Z]{2,}
FullMatch(s) ==
    \E at \in 2..Len(s) : \E dot \in (at + 2)..(Len(s) - 2) :
        /\ s[at] = "@"
        /\ s[dot] = "."
        /\ AllIn(SubSeq(s, 1, at - 1), LocalChars)
        /\ AllIn(SubSeq(s, at + 1, dot - 1), DomainChars)
        /\ AllIn(SubSeq(s, dot + 1, Len(s)), Letters)

\* email_pattern.match(s): '^' anchors at the start; '$' matches at the end
\* of the string and also just before a final newline.
email_pattern_match(s) ==
    \/ FullMatch(s)
    \/ s # <<>> /\ s[Len(s)] = "\n" /\ FullMatch(SubSeq(s, 1, Len(s) - 1))

DisallowedTerms ==
    { <<"w", "h", "a", "t", "s", "a", "p", "p">>,
      <<"m", "e", "s", "s", "e", "n", "g", "e", "r">>,
      <<"f", "a", "c", "e", "b", "o", "o", "k">>,
      <<"t", "e", "s", "t">>,
      <<"e", "x", "a", "m", "p", "l", "e">> }

is_valid_email(email) ==
    IF isna(email) \/ email = NanStr \/ email = <<>>
    THEN FALSE
    ELSE LET e == strip(lower(email))
         IN  IF \E term \in DisallowedTerms : Contains(e, term)
             THEN FALSE
             ELSE email_pattern_match(e)

(* ------------------------------ clean_name ----------------------------- *)

clean_name(name) ==
    IF isna(name) \/ name = NanStr \/ name = <<>>
    THEN <<>>
    ELSE LET clean == strip(join(split(name)))
             words == split(clean)
         IN  join([i \in 1..Len(words) |-> capitalize(words[i])])

(* ------------------------------ clean_address -------------------------- *)

\* re.sub(r'\s*,\s*', ', ', s): scanning from the left, every comma together
\* with the whitespace around it is replaced by a comma and one space.
RECURSIVE SubCommaSpacing(_)
SubCommaSpacing(s) ==
    IF s = <<>>
    THEN <<>>
    ELSE LET t == lstrip(s)
         IN  IF t # <<>> /\ Head(t) = ","
             THEN <<",", " ">> \o SubCommaSpacing(lstrip(Tail(t)))
             ELSE <<Head(s)>> \o SubCommaSpacing(Tail(s))

\* re.sub(r',+', ',', s): every run of adjacent commas becomes one comma.
RECURSIVE SubCommaRuns(_)
SubCommaRuns(s) ==
    IF s = <<>>
    THEN <<>>
    ELSE IF Head(s) = "," /\ Len(s) > 1 /\ s[2] = ","
    THEN SubCommaRuns(Tail(s))
    ELSE <<Head(s)>> \o SubCommaRuns(Tail(s))

clean_address(address) ==
    IF isna(address) \/ address = NanStr \/ address = <<>>
    THEN <<>>
    ELSE SubCommaRuns(SubCommaSpacing(join(split(address))))

(* ------------------------------ column names --------------------------- *)

col_name == <<"n", "a", "m", "e">>

col_email == <<"e", "m", "a", "i", "l">>

col_phone == <<"p", "h", "o", "n", "e">>

col_address == <<"a", "d", "d", "r", "e", "s", "s">>

col_first_name == <<"f", "i", "r", "s", "t", "_", "n", "a", "m", "e">>

col_last_name == <<"l", "a", "s", "t", "_", "n", "a", "m", "e">>

\* column_renames: alias -> canonical name
column_renames ==
    (<<"e", "m", "i", "a", "l">> :> col_email) @@
    (<<"e", "-", "m", "a", "i", "l">> :> col_email) @@
    (<<"e", "m", "a", "i", ";">> :> col_email) @@
    (<<"m", "o", "b", "i", "l", "e">> :> col_phone) @@
    (<<"p", "h", "o", "n", "e", " ", "n", "u", "m", "b", "e", "r">> :> col_phone) @@
    (<<"c", "e", "l", "l">> :> col_phone) @@
    (<<"f", "u", "l", "l", " ", "n", "a", "m", "e">> :> col_name) @@
    (<<"c", "o", "n", "t", "a", "c", "t", " ", "n", "a", "m", "e">> :> col_name) @@
    (<<"l", "i", "n", "k", "s">> :> col_name) @@
    (<<"l", "i", "n", "k">> :> col_name) @@
    (<<"n", "a", "m", "e">> :> col_name) @@
    (<<"f", "u", "l", "l", " ", "a", "d", "d", "r", "e", "s", "s">> :> col_address) @@
    (<<"l", "o", "c", "a", "t", "i", "o", "n">> :> col_address)

\* df.rename(columns=column_renames) on one column label
Rename(col) == IF col \in DOMAIN column_renames THEN column_renames[col] ELSE col

required_columns == <<col_name, col_email, col_phone, col_address>>

(* ------------------------------ CSV files ------------------------------ *)

\* The cell texts pandas.read_csv reads as a missing value (its default
\* na_values), the empty cell among them.
NAValues ==
    { <<>>,
      <<"n", "a", "n">>,
      <<"N", "a", "N">>,
      <<"-", "n", "a", "n">>,
      <<"-", "N", "a", "N">>,
      <<"N", "A">>,
      <<"N", "/", "A">>,
      <<"n", "/", "a">>,
      <<"N", "U", "L", "L">>,
      <<"n", "u", "l", "l">>,
      <<"N", "o", "n", "e">>,
      <<"#", "N", "/", "A">>,
      <<"#", "N", "A">>,
      <<"<", "N", "A", ">">> }

\* read_csv on one cell.  Every text of the model is non-numeric, so a cell is
\* read as a string or as NaN.
ReadCsvCell(raw) == IF raw \in NAValues THEN NaN ELSE raw

\* pd.read_csv(input_file): a frame with the file's header and parsed cells.
read_csv(file) ==
    [cols |-> file.cols,
     rows |-> [r \in 1..Len(file.rows) |->
                 [c \in 1..Len(file.cols) |-> ReadCsvCell(file.rows[r][c])]]]

\* to_csv on one cell: NaN is written as the empty cell, text as it is.
ToCsvCell(v) == IF isna(v) THEN <<>> ELSE v

\* df_cleaned.to_csv(path, index=False): header and the rows' cells.
to_csv(frame) ==
    [cols |-> frame.columns,
     rows |-> [r \in 1..Len(frame.rows) |->
                 <<ToCsvCell(frame.rows[r].name), ToCsvCell(frame.rows[r].email),
                   ToCsvCell(frame.rows[r].phone), ToCsvCell(frame.rows[r].address)>>]]

(* ------------------------------ inputs --------------------------------- *)

\* Cell texts of the input files.
EmailPlain == <<"a", "@", "b", ".", "c", "o">>

EmailShouting == <<" ", "A", "@", "B", ".", "c", "o", "\n">>

EmailOther == <<"c", "@", "d", ".", "i", "o">>

EmailTest == <<"t", "e", "s", "t", "@", "b", ".", "c", "o">>

EmailNoTld == <<"a", "@", "b">>

NamePlain == <<"j", "o", "e", " ", " ", "s", "m", "i", "t", "h">>

NameNone == <<"N", "O", "N", "E">>

AddressPlain == <<"1", " ", "M", "a", "i", "n", " ", ",", "S", "t">>

AddressNA == <<" ", "N", "/", "A">>

PhonePlain == <<"+", "6", "3", " ", "2">>

FirstPlain == <<"j", "o", "e">>

LastPlain == <<"s", "m", "i", "t", "h">>


\* The empty cell, which read_csv reads as NaN.
EmptyCell == <<>>

\* A cell of one space, which read_csv reads as text.
BlankCell == <<" ">>

EmailPool == {EmailPlain, EmailShouting, EmailOther, EmailTest, EmailNoTld, EmptyCell}

NamePool == {NamePlain, EmptyCell}

AddressPool == {AddressPlain, BlankCell}

\* Data rows of a file whose header is name,email,phone,address.
RowPool ==
    {<<n, e, PhonePlain, a>> : n \in NamePool, e \in EmailPool, a \in AddressPool}

\* Rows whose cleaned cells read_csv reads back as missing values.
RerunRowPool ==
    {<<n, e, PhonePlain, a>> :
        n \in {NamePlain, NameNone}, e \in {EmailPlain, EmailTest},
        a \in {AddressPlain, AddressNA}}

SeqsUpTo(S, n) == UNION {[1..k -> S] : k \in 0..n}

\* Header texts as they may stand in an input file, with the cell each
\* column holds in the file's one data row.
HeaderPool ==
    << <<"N", "a", "m", "e">>,
       <<"E", "-", "M", "a", "i", "l">>,
       <<"e", "m", "a", "i", "l">>,
       <<" ", "M", "o", "b", "i", "l", "e", " ">>,
       <<"p", "h", "o", "n", "e">>,
       <<"L", "o", "c", "a", "t", "i", "o", "n">>,
       <<"a", "d", "d", "r", "e", "s", "s">>,
       <<"f", "i", "r", "s", "t", "_", "n", "a", "m", "e">>,
       <<"l", "a", "s", "t", "_", "n", "a", "m", "e">> >>

HeaderCell ==
    <<NamePlain, EmailPlain, EmailOther, PhonePlain, PhonePlain,
      AddressPlain, AddressPlain, FirstPlain, LastPlain>>

\* The members of pool whose index is in S, in pool order.
RECURSIVE Pick(_, _, _)
Pick(pool, S, i) ==
    IF i > Len(pool) THEN <<>>
    ELSE (IF i \in S THEN <<pool[i]>> ELSE <<>>) \o Pick(pool, S, i + 1)

CanonicalFile(rows) == [cols |-> required_columns, rows |-> rows]

HeaderFile(S) ==
    [cols |-> Pick(HeaderPool, S, 1), rows |-> <<Pick(HeaderCell, S, 1)>>]

\* Small files for the runs that vary the options and the file system.
EnvFiles ==
    { CanonicalFile(<<>>),
      CanonicalFile(<< <<NamePlain, EmailPlain, PhonePlain, AddressPlain>> >>),
      CanonicalFile(<< <<NamePlain, EmailTest, PhonePlain, AddressPlain>>,
                       <<NamePlain, EmailOther, PhonePlain, AddressPlain>> >>) }

(* ------------------------------ state ---------------------------------- *)

VARIABLES pc, run, csv, input_exists, output_supplied, log_errors, debug_mode,
          out_writable, alt_writable, timestamp_bound, df, df_cleaned, errors,
          exc, out_file, alt_file, log, console, summary, log0, stages,
          first_out, address, cleaned

\* pc: the statement of clean_data the run stands before
\* run: 1 for a run on the input file, 2 for a run on the first run's output
\* csv: the input file; input_exists: os.path.exists(input_file)
\* output_supplied: the caller passed output_file
\* out_writable, alt_writable: whether writing output_file, and the fallback
\*   path, is permitted
\* timestamp_bound: the local variable timestamp has been assigned
\* df, df_cleaned, errors: the locals of that name; exc: the exception raised
\* out_file, alt_file: the files at output_file and at the fallback path
\* log: data_cleaning_errors.log; console: what was printed
\* summary: the printed summary
\* log0: the log before the run; stages: df_cleaned's rows after the cleaners
\*   and after each filter; first_out: the table the first run returned
\* address, cleaned: an argument of clean_address and its result

vars == <<pc, run, csv, input_exists, output_supplied, log_errors, debug_mode,
          out_writable, alt_writable, timestamp_bound, df, df_cleaned, errors,
          exc, out_file, alt_file, log, console, summary, log0, stages,
          first_out, address, cleaned>>

NoFile == [written |-> FALSE, cols |-> <<>>, rows |-> <<>>]

NoFrame == [cols |-> <<>>, rows |-> <<>>]

NoCleaned == [columns |-> <<>>, rows |-> <<>>]

NoExc == [type |-> "none", arg |-> <<>>]

NoSummary ==
    [printed |-> FALSE, original |-> 0, cleaned |-> 0, removed |-> 0,
     pct_num |-> 0, pct_den |-> 1, notes |-> <<>>]

Exc(type) == [type |-> type, arg |-> <<>>]

\* The line the handler appends to the error log.
LogLine(e) == [error |-> e]

OldLogLine == LogLine(Exc("earlier run"))

(* ------------------------------ column reconciler ---------------------- *)

InCols(c, cols) == \E i \in 1..Len(cols) : cols[i] = c

\* [col.lower().strip() for col in df.columns], then df.rename
NormalizedColumns(cols) == [i \in 1..Len(cols) |-> Rename(strip(lower(cols[i])))]

\* [col for col in required_columns if col not in df.columns]
Missing(cols) == SelectSeq(required_columns, LAMBDA c : ~InCols(c, cols))

\* 'name' in missing and 'first_name' in df.columns and 'last_name' in df.columns
CanSynthesize(cols) ==
    /\ InCols(col_name, Missing(cols))
    /\ InCols(col_first_name, cols)
    /\ InCols(col_last_name, cols)

\* missing without the missing.remove('name')
StillMissingListsName(cols) == Missing(cols)

\* missing, after missing.remove('name') when the name is synthesized
StillMissing(cols) ==
    IF CanSynthesize(cols)
    THEN SelectSeq(Missing(cols), LAMBDA c : c # col_name)
    ELSE Missing(cols)

ColumnIndex(cols, c) ==
    CHOOSE i \in 1..Len(cols) :
        cols[i] = c /\ \A j \in 1..(i - 1) : cols[j] # c

\* a + ' ' + b on two cells: NaN when either is NaN
ConcatCells(a, b) == IF isna(a) \/ isna(b) THEN NaN ELSE a \o <<" ">> \o b

\* df['name'] = df['first_name'] + ' ' + df['last_name']
WithName(frame) ==
    [cols |-> Append(frame.cols, col_name),
     rows |-> [r \in 1..Len(frame.rows) |->
                 Append(frame.rows[r],
                        ConcatCells(frame.rows[r][ColumnIndex(frame.cols, col_first_name)],
                                    frame.rows[r][ColumnIndex(frame.cols, col_last_name)]))]]

Count(c, cols) == Cardinality({i \in 1..Len(cols) : cols[i] = c})

Repeat(c, n) == [i \in 1..n |-> c]

\* The labels of df[required_columns]: every column carrying a required
\* label, so a label that two input columns were renamed to occurs twice.
SelectedColumns(cols) ==
    Repeat(col_name, Count(col_name, cols)) \o Repeat(col_email, Count(col_email, cols))
    \o Repeat(col_phone, Count(col_phone, cols))
    \o Repeat(col_address, Count(col_address, cols))

\* df[required_columns].copy(); the rows keep their index
SelectRequired(frame) ==
    [columns |-> SelectedColumns(frame.cols),
     rows |-> [r \in 1..Len(frame.rows) |->
                 [idx |-> r - 1,
                  name |-> frame.rows[r][ColumnIndex(frame.cols, col_name)],
                  email |-> frame.rows[r][ColumnIndex(frame.cols, col_email)],
                  phone |-> frame.rows[r][ColumnIndex(frame.cols, col_phone)],
                  address |-> frame.rows[r][ColumnIndex(frame.cols, col_address)]]]]

(* ------------------------------ field cleaner -------------------------- *)

\* df_cleaned[col].dtype == 'object': the column holds text.  A column that is
\* all NaN is float64; a column of no rows is read as object.
IsObject(rows, f) == rows = <<>> \/ \E r \in 1..Len(rows) : ~isna(rows[r][f])

\* .astype(str) on one cell
astype_str(v) == IF isna(v) THEN NanStr ELSE v

\* The cell with .astype(str) alone, the .str.strip() left out.
StripCellKeepsWhitespace(v) == astype_str(v)

\* df_cleaned[col] = df_cleaned[col].astype(str).str.strip() for object columns
StripCell(v) == strip(astype_str(v))

StripColumn(rows, f) ==
    IF IsObject(rows, f)
    THEN [r \in 1..Len(rows) |-> [rows[r] EXCEPT ![f] = StripCell(@)]]
    ELSE rows

StripColumns(rows) ==
    StripColumn(StripColumn(StripColumn(StripColumn(rows, "name"), "email"), "phone"), "address")

\* lambda x: x.lower() if isinstance(x, str) and x != 'nan' else x
LowerEmail(x) == IF ~isna(x) /\ x # NanStr THEN lower(x) ELSE x

\* The three .apply calls of the cleaners.
ApplyCleaners(rows) ==
    [r \in 1..Len(rows) |->
        [rows[r] EXCEPT !.email = LowerEmail(@),
                        !.name = clean_name(@),
                        !.address = clean_address(@)]]

(* ------------------------------ filter chain --------------------------- *)

\* df_cleaned[mask] for a boolean mask
RECURSIVE Masked(_, _)
Masked(rows, mask) ==
    IF rows = <<>> THEN <<>>
    ELSE (IF Head(mask) THEN <<Head(rows)>> ELSE <<>>) \o Masked(Tail(rows), Tail(mask))

Note(n, what) == [count |-> n, what |-> what]

\* errors.append(...) with no guard: a note also for a stage that removed none.
WithNoteUnguarded(notes, n, what) == Append(notes, Note(n, what))

\* errors.append(...) guarded by the count
WithNote(notes, n, what) == IF n # 0 THEN Append(notes, Note(n, what)) ELSE notes

\* df_cleaned['email'].apply(is_valid_email)
valid_email_mask(rows) == [r \in 1..Len(rows) |-> is_valid_email(rows[r].email)]

\* Boolean selection that keeps the columns also for a frame of no rows.
SelectValidEmailsKeepsColumns(frame) ==
    [columns |-> frame.columns,
     rows |-> Masked(frame.rows, valid_email_mask(frame.rows))]

\* df_cleaned[valid_email_mask].  A mask over no rows is an empty object
\* Series, which pandas does not take for a boolean indexer: it selects the
\* columns the Series lists, that is none, and the frame loses its columns.
SelectValidEmails(frame) ==
    IF frame.rows = <<>>
    THEN [columns |-> <<>>, rows |-> <<>>]
    ELSE [columns |-> frame.columns,
          rows |-> Masked(frame.rows, valid_email_mask(frame.rows))]

\* df_cleaned[col].astype(str).str.strip() != ''
nonempty_mask(rows, f) ==
    [r \in 1..Len(rows) |-> strip(astype_str(rows[r][f])) # <<>>]

\* duplicated(subset=['email'], keep='last'): the last occurrence is kept.
duplicates_keep_last(rows) ==
    [r \in 1..Len(rows) |->
        \E q \in (r + 1)..Len(rows) : rows[q].email = rows[r].email]

\* df_cleaned.duplicated(subset=['email'], keep='first')
duplicates(rows) ==
    [r \in 1..Len(rows) |-> \E q \in 1..(r - 1) : rows[q].email = rows[r].email]

Sum(mask) == Cardinality({r \in 1..Len(mask) : mask[r]})

Not(mask) == [r \in 1..Len(mask) |-> ~mask[r]]

(* ------------------------------ initial states ------------------------- *)

\* The state of a run before its first statement.
Fresh ==
    /\ pc = "start"
    /\ run = 1
    /\ timestamp_bound = FALSE
    /\ df = NoFrame
    /\ df_cleaned = NoCleaned
    /\ errors = <<>>
    /\ exc = NoExc
    /\ out_file = NoFile
    /\ alt_file = NoFile
    /\ log = log0
    /\ console = <<>>
    /\ summary = NoSummary
    /\ stages = <<>>
    /\ first_out = NoCleaned
    /\ address = <<>>
    /\ cleaned = <<>>

DefaultOptions ==
    /\ input_exists = TRUE
    /\ output_supplied = FALSE
    /\ log_errors = TRUE
    /\ debug_mode = FALSE
    /\ out_writable = TRUE
    /\ alt_writable = TRUE
    /\ log0 = <<>>

\* Files of up to MaxRows rows under the canonical header, default options.
InitTables ==
    /\ csv \in {CanonicalFile(rows) : rows \in SeqsUpTo(RowPool, MaxRows)}
    /\ DefaultOptions
    /\ Fresh

\* Every combination of the options and of the file system's answers.
InitEnv ==
    /\ csv \in EnvFiles
    /\ input_exists \in BOOLEAN
    /\ output_supplied \in BOOLEAN
    /\ log_errors \in BOOLEAN
    /\ debug_mode \in BOOLEAN
    /\ out_writable \in BOOLEAN
    /\ alt_writable \in BOOLEAN
    /\ log0 \in {<<>>, <<OldLogLine>>}
    /\ Fresh

\* One-row files under every selection of the header texts.
InitHeaders ==
    /\ csv \in {HeaderFile(S) : S \in SUBSET (1..Len(HeaderPool))}
    /\ DefaultOptions
    /\ Fresh

Init == InitTables \/ InitEnv \/ InitHeaders

(* ------------------------------ clean_data ----------------------------- *)

Raise(e) == exc' = e /\ pc' = "except"

\* Lines 20-31: the default output name and the existence check, which raises
\* outside the try block.
CheckInput ==
    /\ pc = "start"
    /\ timestamp_bound' = ~output_supplied
    /\ IF ~input_exists
       THEN exc' = Exc("FileNotFoundError") /\ pc' = "raised"
       ELSE pc' = "load" /\ UNCHANGED exc
    /\ UNCHANGED <<run, csv, input_exists, output_supplied, log_errors, debug_mode,
                   out_writable, alt_writable, df, df_cleaned, errors, out_file,
                   alt_file, log, console, summary, log0, stages, first_out,
                   address, cleaned>>

\* Lines 35-37.
Load ==
    /\ pc = "load"
    /\ df' = read_csv(csv)
    /\ console' = console \o <<"loaded", "columns">>
    /\ pc' = "reconcile"
    /\ UNCHANGED <<run, csv, input_exists, output_supplied, log_errors, debug_mode,
                   out_writable, alt_writable, timestamp_bound, df_cleaned, errors,
                   exc, out_file, alt_file, log, summary, log0, stages, first_out,
                   address, cleaned>>

\* The frame after lines 40-68: labels normalized and renamed, the name
\* column synthesized when it can be.
Reconciled(frame) ==
    LET renamed == [frame EXCEPT !.cols = NormalizedColumns(frame.cols)]
    IN  IF CanSynthesize(renamed.cols) THEN WithName(renamed) ELSE renamed

\* Lines 39-74.
Reconcile ==
    /\ pc = "reconcile"
    /\ df' = Reconciled(df)
    /\ IF StillMissing(NormalizedColumns(df.cols)) # <<>>
       THEN /\ Raise([type |-> "ValueError",
                      arg |-> StillMissing(NormalizedColumns(df.cols))])
            /\ UNCHANGED df_cleaned
       ELSE /\ df_cleaned' = SelectRequired(df')
            /\ pc' = "clean"
            /\ UNCHANGED exc
    /\ UNCHANGED <<run, csv, input_exists, output_supplied, log_errors, debug_mode,
                   out_writable, alt_writable, timestamp_bound, errors, out_file,
                   alt_file, log, console, summary, log0, stages, first_out,
                   address, cleaned>>

\* Lines 76-126.  With a required label on two columns df_cleaned[col] is a
\* frame, which has no dtype: AttributeError.
Clean ==
    /\ pc = "clean"
    /\ IF Len(df_cleaned.columns) # Len(required_columns)
       THEN /\ Raise(Exc("AttributeError"))
            /\ UNCHANGED <<df_cleaned, stages>>
       ELSE /\ df_cleaned' =
                  [df_cleaned EXCEPT !.rows = ApplyCleaners(StripColumns(@))]
            /\ stages' = <<df_cleaned'.rows>>
            /\ pc' = "filter_email"
            /\ UNCHANGED exc
    /\ console' = IF debug_mode THEN Append(console, "diagnostic: sample") ELSE console
    /\ UNCHANGED <<run, csv, input_exists, output_supplied, log_errors, debug_mode,
                   out_writable, alt_writable, timestamp_bound, df, errors, out_file,
                   alt_file, log, summary, log0, first_out, address, cleaned>>

\* Lines 128-147.
FilterEmail ==
    /\ pc = "filter_email"
    /\ df_cleaned' = SelectValidEmails(df_cleaned)
    /\ errors' = WithNote(errors, Len(df_cleaned.rows) - Len(df_cleaned'.rows),
                          "rows with invalid/missing email")
    /\ stages' = Append(stages, df_cleaned'.rows)
    /\ console' = IF debug_mode THEN Append(console, "diagnostic: emails") ELSE console
    /\ pc' = "filter_name"
    /\ UNCHANGED <<run, csv, input_exists, output_supplied, log_errors, debug_mode,
                   out_writable, alt_writable, timestamp_bound, df, exc, out_file,
                   alt_file, log, summary, log0, first_out, address, cleaned>>

\* Lines 150-158, one pass of the loop over ['name', 'address'].  Indexing a
\* frame that lost its columns raises KeyError.
FilterNonEmpty(f, label, what, next) ==
    /\ pc = "filter_" \o f
    /\ IF ~InCols(label, df_cleaned.columns)
       THEN /\ Raise([type |-> "KeyError", arg |-> <<label>>])
            /\ UNCHANGED <<df_cleaned, errors, stages, console>>
       ELSE LET kept == Masked(df_cleaned.rows, nonempty_mask(df_cleaned.rows, f))
                dropped == Len(df_cleaned.rows) - Len(kept)
            IN  /\ df_cleaned' = [df_cleaned EXCEPT !.rows = kept]
                /\ errors' = WithNote(errors, dropped, what)
                /\ stages' = Append(stages, kept)
                /\ console' = IF debug_mode /\ dropped # 0
                              THEN Append(console, "diagnostic: empty")
                              ELSE console
                /\ pc' = next
                /\ UNCHANGED exc
    /\ UNCHANGED <<run, csv, input_exists, output_supplied, log_errors, debug_mode,
                   out_writable, alt_writable, timestamp_bound, df, out_file,
                   alt_file, log, summary, log0, first_out, address, cleaned>>

FilterName == FilterNonEmpty("name", col_name, "rows with empty name", "filter_address")

FilterAddress == FilterNonEmpty("address", col_address, "rows with empty address", "dedup")

\* Lines 160-167.
Dedup ==
    /\ pc = "dedup"
    /\ LET dup == duplicates(df_cleaned.rows)
       IN  /\ df_cleaned' =
                 IF Sum(dup) > 0
                 THEN [df_cleaned EXCEPT !.rows = Masked(@, Not(dup))]
                 ELSE df_cleaned
           /\ errors' = WithNote(errors, Sum(dup), "duplicate email entries")
           /\ console' = IF debug_mode /\ Sum(dup) > 0
                         THEN console \o <<"diagnostic: duplicates", "diagnostic: preview">>
                         ELSE IF debug_mode THEN Append(console, "diagnostic: preview")
                         ELSE console
    /\ stages' = Append(stages, df_cleaned'.rows)
    /\ pc' = "save"
    /\ UNCHANGED <<run, csv, input_exists, output_supplied, log_errors, debug_mode,
                   out_writable, alt_writable, timestamp_bound, df, exc, out_file,
                   alt_file, log, summary, log0, first_out, address, cleaned>>

Written(frame) == [written |-> TRUE, cols |-> to_csv(frame).cols, rows |-> to_csv(frame).rows]

\* Lines 175-183: the write, and on PermissionError the write to
\* f"email_only_data_{timestamp}.csv", which reads the local timestamp.
Save ==
    /\ pc = "save"
    /\ IF out_writable
       THEN /\ out_file' = Written(df_cleaned)
            /\ console' = Append(console, "saved")
            /\ pc' = "summary"
            /\ UNCHANGED <<alt_file, exc>>
       ELSE IF ~timestamp_bound
       THEN /\ Raise(Exc("UnboundLocalError"))
            /\ UNCHANGED <<out_file, alt_file, console>>
       ELSE IF alt_writable
       THEN /\ alt_file' = Written(df_cleaned)
            /\ console' = Append(console, "saved to fallback")
            /\ pc' = "summary"
            /\ UNCHANGED <<out_file, exc>>
       ELSE /\ Raise(Exc("PermissionError"))
            /\ UNCHANGED <<out_file, alt_file, console>>
    /\ UNCHANGED <<run, csv, input_exists, output_supplied, log_errors, debug_mode,
                   out_writable, alt_writable, timestamp_bound, df, df_cleaned,
                   errors, log, summary, log0, stages, first_out, address, cleaned>>

\* The notes the summary prints: if errors and log_errors.
PrintedNotes(notes, flag) == IF notes # <<>> /\ flag THEN notes ELSE <<>>

\* Lines 185-195.  The percentage divides by len(df).
Summarize ==
    /\ pc = "summary"
    /\ IF Len(df.rows) = 0
       THEN /\ Raise(Exc("ZeroDivisionError"))
            /\ console' = console \o <<"summary", "rows">>
            /\ UNCHANGED summary
       ELSE /\ summary' =
                  [printed |-> TRUE,
                   original |-> Len(df.rows),
                   cleaned |-> Len(df_cleaned.rows),
                   removed |-> Len(df.rows) - Len(df_cleaned.rows),
                   pct_num |-> (Len(df.rows) - Len(df_cleaned.rows)) * 100,
                   pct_den |-> Len(df.rows),
                   notes |-> PrintedNotes(errors, log_errors)]
            /\ console' = console \o <<"summary", "rows", "removed">>
                          \o (IF PrintedNotes(errors, log_errors) # <<>>
                              THEN <<"notes">> ELSE <<>>)
            /\ pc' = "done"
            /\ UNCHANGED exc
    /\ UNCHANGED <<run, csv, input_exists, output_supplied, log_errors, debug_mode,
                   out_writable, alt_writable, timestamp_bound, df, df_cleaned,
                   errors, out_file, alt_file, log, log0, stages, first_out,
                   address, cleaned>>

\* The log write without the test of log_errors.
LoggedUnconditionally(lines, flag, e) == Append(lines, LogLine(e))

\* with open('data_cleaning_errors.log', 'a') as f: f.write(...), if log_errors
Logged(lines, flag, e) == IF flag THEN Append(lines, LogLine(e)) ELSE lines

\* Lines 197-203: the handler of the try block.
Except ==
    /\ pc = "except"
    /\ console' = Append(console, "error")
    /\ log' = Logged(log, log_errors, exc)
    /\ pc' = "raised"
    /\ UNCHANGED <<run, csv, input_exists, output_supplied, log_errors, debug_mode,
                   out_writable, alt_writable, timestamp_bound, df, df_cleaned,
                   errors, exc, out_file, alt_file, summary, log0, stages,
                   first_out, address, cleaned>>

Next ==
    \/ CheckInput
    \/ Load
    \/ Reconcile
    \/ Clean
    \/ FilterEmail
    \/ FilterName
    \/ FilterAddress
    \/ Dedup
    \/ Save
    \/ Summarize
    \/ Except

Spec == Init /\ [][Next]_vars

(* ------------------------------ a second run --------------------------- *)

\* The file a completed run left behind.
WrittenFile == IF out_file.written THEN out_file ELSE alt_file

\* clean_data called again, with the same options, on the file the first
\* run wrote; its own output goes to a path that holds no file yet.
Rerun ==
    /\ pc = "done"
    /\ run = 1
    /\ run' = 2
    /\ csv' = [cols |-> WrittenFile.cols, rows |-> WrittenFile.rows]
    /\ first_out' = df_cleaned
    /\ log0' = log
    /\ pc' = "start"
    /\ timestamp_bound' = FALSE
    /\ df' = NoFrame
    /\ df_cleaned' = NoCleaned
    /\ errors' = <<>>
    /\ exc' = NoExc
    /\ out_file' = NoFile
    /\ alt_file' = NoFile
    /\ console' = <<>>
    /\ summary' = NoSummary
    /\ stages' = <<>>
    /\ UNCHANGED <<input_exists, output_supplied, log_errors, debug_mode,
                   out_writable, alt_writable, log, address, cleaned>>

InitRerun ==
    /\ csv \in {CanonicalFile(rows) : rows \in SeqsUpTo(RerunRowPool, MaxRows)}
    /\ DefaultOptions
    /\ Fresh

NextRerun == Next \/ Rerun

SpecRerun == InitRerun /\ [][NextRerun]_vars

(* ------------------------------ clean_address alone -------------------- *)

AddressAlphabet == {"a", " ", ","}

InitAddress ==
    /\ address \in SeqsUpTo(AddressAlphabet, MaxAddrLen) \ {<<>>}
    /\ csv = CanonicalFile(<<>>)
    /\ DefaultOptions
    /\ pc = "clean_address"
    /\ run = 1
    /\ timestamp_bound = FALSE
    /\ df = NoFrame
    /\ df_cleaned = NoCleaned
    /\ errors = <<>>
    /\ exc = NoExc
    /\ out_file = NoFile
    /\ alt_file = NoFile
    /\ log = log0
    /\ console = <<>>
    /\ summary = NoSummary
    /\ stages = <<>>
    /\ first_out = NoCleaned
    /\ cleaned = <<>>

\* cleaned = clean_address(address)
CleanAddress ==
    /\ pc = "clean_address"
    /\ cleaned' = clean_address(address)
    /\ pc' = "address_cleaned"
    /\ UNCHANGED <<run, csv, input_exists, output_supplied, log_errors, debug_mode,
                   out_writable, alt_writable, timestamp_bound, df, df_cleaned,
                   errors, exc, out_file, alt_file, log, console, summary, log0,
                   stages, first_out, address>>

NextAddress == CleanAddress

SpecAddress == InitAddress /\ [][NextAddress]_vars

(* ------------------------------ properties ----------------------------- *)

Range(seq) == {seq[i] : i \in 1..Len(seq)}

\* The run has written its table, or has returned it.
HasOutput == pc \in {"summary", "done"}

\* A row, as the claims describe it: its email is matched in full by the
\* pattern and holds no disallowed term, its name and address are non-empty
\* after trimming.
EmailOk(e) ==
    /\ ~isna(e)
    /\ FullMatch(e)
    /\ \A term \in DisallowedTerms : ~Contains(e, term)

TextOk(v) == ~isna(v) /\ strip(v) # <<>>

\* C1: every row of the returned table, and of the file written, has an
\* email that matches the pattern and contains none of the five disallowed
\* substrings, and a name and an address that are non-empty after trimming.
C1_OutputRowsValid ==
    HasOutput =>
        /\ \A row \in Range(df_cleaned.rows) :
              EmailOk(row.email) /\ TextOk(row.name) /\ TextOk(row.address)
        /\ WrittenFile.written
        /\ Len(WrittenFile.rows) = Len(df_cleaned.rows)
        /\ \A cells \in Range(WrittenFile.rows) :
              EmailOk(cells[2]) /\ TextOk(cells[1]) /\ TextOk(cells[4])

\* A completed run that dropped a row and kept a row whose email was
\* written with capitals and surrounding whitespace in the input.
C1_Witness ==
    /\ pc = "done"
    /\ errors # <<>>
    /\ \E r \in 1..Len(csv.rows) :
          /\ csv.rows[r][2] = EmailShouting
          /\ \E row \in Range(df_cleaned.rows) : row.idx = r - 1

\* The cleaned rows that pass the email, name and address filters.
Survivors ==
    SelectSeq(stages[1],
              LAMBDA row : is_valid_email(row.email) /\ strip(row.name) # <<>>
                           /\ strip(row.address) # <<>>)

\* C2: no two output rows share an email; the output is, in input order,
\* exactly the rows that survive the first three filters and have no earlier
\* surviving row with the same email, so a row is dropped as a duplicate only
\* of a surviving row.
C2_FirstOccurrenceKept ==
    pc \in {"save", "summary", "done"} =>
        LET out == df_cleaned.rows
        IN  /\ \A i, j \in 1..Len(out) : i < j =>
                  out[i].email # out[j].email /\ out[i].idx < out[j].idx
            /\ Range(out) \subseteq Range(stages[1])
            /\ \A row \in Range(stages[1]) :
                  row \in Range(out) <=>
                     /\ row \in Range(Survivors)
                     /\ \A s \in Range(Survivors) :
                           s.email = row.email => s.idx >= row.idx

\* Two rows whose emails differ in the input only by case and whitespace
\* both pass the filters, and the later one is dropped.
C2_Witness ==
    /\ pc = "done"
    /\ Len(Survivors) = 2
    /\ Len(df_cleaned.rows) = 1
    /\ df_cleaned.rows[1].idx = 0
    /\ csv.rows[1][2] # csv.rows[2][2]

CountRows(rows, P(_)) == Len(SelectSeq(rows, P))

\* The notes the four stages owe, each row counted by the first filter it
\* fails.
ExpectedNotes ==
    LET rows == stages[1]
        n1 == CountRows(rows, LAMBDA row : ~is_valid_email(row.email))
        n2 == CountRows(rows, LAMBDA row : is_valid_email(row.email)
                                           /\ strip(row.name) = <<>>)
        n3 == CountRows(rows, LAMBDA row : is_valid_email(row.email)
                                           /\ strip(row.name) # <<>>
                                           /\ strip(row.address) = <<>>)
        n4 == Len(Survivors) - Cardinality({row.email : row \in Range(Survivors)})
    IN  (IF n1 > 0 THEN <<Note(n1, "rows with invalid/missing email")>> ELSE <<>>)
        \o (IF n2 > 0 THEN <<Note(n2, "rows with empty name")>> ELSE <<>>)
        \o (IF n3 > 0 THEN <<Note(n3, "rows with empty address")>> ELSE <<>>)
        \o (IF n4 > 0 THEN <<Note(n4, "duplicate email entries")>> ELSE <<>>)

\* C3: the filters run in the order email, name, address, duplicate, each on
\* the table the previous one left; the notes are, in that order, one note
\* for each stage that removed a row, with the number of rows it removed.
C3_NotesInStageOrder ==
    pc \in {"save", "summary", "done"} =>
        /\ Len(stages) = 5
        /\ stages[2] = SelectSeq(stages[1], LAMBDA row : is_valid_email(row.email))
        /\ stages[3] = SelectSeq(stages[2], LAMBDA row : strip(row.name) # <<>>)
        /\ stages[4] = SelectSeq(stages[3], LAMBDA row : strip(row.address) # <<>>)
        /\ Range(stages[5]) \subseteq Range(stages[4])
        /\ stages[5] = df_cleaned.rows
        /\ errors = ExpectedNotes

\* A completed run with two notes, one of whose rows fails both the email
\* filter and the name filter.
C3_Witness ==
    /\ pc = "done"
    /\ Len(errors) = 2
    /\ \E row \in Range(stages[1]) :
          ~is_valid_email(row.email) /\ strip(row.name) = <<>>

\* The cells of a table's rows, without the row index.
Cells(rows) ==
    [r \in 1..Len(rows) |->
        <<rows[r].name, rows[r].email, rows[r].phone, rows[r].address>>]

\* C4: a second run, on the file the first run wrote, returns the table the
\* first run returned and removes no row.
C4_SecondRunIdentical ==
    (run = 2 /\ pc \in {"done", "raised"}) =>
        /\ pc = "done"
        /\ Cells(df_cleaned.rows) = Cells(first_out.rows)
        /\ errors = <<>>

\* The run reached the write and the write to output_file was refused.
WriteRefused == Len(stages) = 5 /\ ~out_writable

\* C5: when the write to the output path is refused, the same table is
\* written to the fallback path and the run completes; a failure propagates
\* only when the fallback write is refused too.
C5_FallbackRecovers ==
    (WriteRefused /\ pc \in {"done", "raised"}) =>
        IF alt_writable
        THEN pc = "done" /\ alt_file = Written(df_cleaned) /\ ~out_file.written
        ELSE pc = "raised"

\* C6: a run that raises has written no output file: once the table is
\* written the run prints the summary and returns.
C6_NoWriteThenRaise ==
    /\ pc \in {"except", "raised"} => ~out_file.written /\ ~alt_file.written
    /\ (out_file.written \/ alt_file.written) => HasOutput /\ exc = NoExc
    /\ pc = "done" => summary.printed /\ (out_file.written \/ alt_file.written)

\* A run on a file of a header and no data rows has raised, with writable
\* paths, and has written nothing.
C6_Witness ==
    /\ pc = "raised"
    /\ input_exists
    /\ csv.rows = <<>>
    /\ out_writable
    /\ ~out_file.written

\* The canonical label the alias table gives each header text of HeaderPool.
HeaderCanonical ==
    <<col_name, col_email, col_email, col_phone, col_phone,
      col_address, col_address, col_first_name, col_last_name>>

Canonical(h) ==
    IF \E i \in 1..Len(HeaderPool) : HeaderPool[i] = h
    THEN HeaderCanonical[CHOOSE i \in 1..Len(HeaderPool) : HeaderPool[i] = h]
    ELSE h

\* The canonical labels the input file's header provides.
Provided == {Canonical(csv.cols[i]) : i \in 1..Len(csv.cols)}

NameSynthesized ==
    col_name \notin Provided /\ col_first_name \in Provided /\ col_last_name \in Provided

\* The required columns still absent after renaming and synthesis.
StillAbsent ==
    {c \in Range(required_columns) : c \notin Provided}
        \ (IF NameSynthesized THEN {col_name} ELSE {})

\* C7: once the header is reconciled, the run raises the missing-columns
\* error exactly when a required column is still absent, and the error lists
\* exactly the absent columns; a synthesized name is not listed.
C7_MissingColumnsExact ==
    (input_exists /\ pc \notin {"start", "load", "reconcile"}) =>
        /\ (exc.type = "ValueError") <=> (StillAbsent # {})
        /\ StillAbsent # {} => pc \in {"except", "raised"}
        /\ exc.type = "ValueError" =>
              /\ Range(exc.arg) = StillAbsent
              /\ Len(exc.arg) = Cardinality(StillAbsent)
        /\ NameSynthesized <=> (~InCols(col_name, NormalizedColumns(csv.cols))
                                /\ InCols(col_name, df.cols))

\* A file with first_name and last_name but neither a name nor a phone
\* column: the error lists the phone alone.
C7_Witness ==
    /\ pc = "raised"
    /\ NameSynthesized
    /\ exc = [type |-> "ValueError", arg |-> <<col_phone>>]

\* C8: a missing input raises FileNotFoundError with nothing processed,
\* written or logged; any other raising run appends exactly one line when
\* log_errors is true and none when it is false; a run that returns appends
\* nothing; the earlier lines of the log stay as they were.
C8_LogAccounting ==
    /\ SubSeq(log, 1, Len(log0)) = log0
    /\ ~input_exists =>
          /\ pc \in {"start", "raised"}
          /\ pc = "raised" => exc.type = "FileNotFoundError"
          /\ log = log0
          /\ df = NoFrame /\ ~out_file.written /\ ~alt_file.written
    /\ (pc = "raised" /\ input_exists) =>
          /\ exc.type \notin {"none", "FileNotFoundError"}
          /\ log = IF log_errors THEN Append(log0, LogLine(exc)) ELSE log0
    /\ pc # "raised" => log = log0

\* A failed run with logging on has added its line after an earlier line.
C8_Witness ==
    /\ pc = "raised"
    /\ log_errors
    /\ log0 = <<OldLogLine>>
    /\ Len(log) = 2

IsComma(s, i) == i \in 1..Len(s) /\ s[i] = ","

\* C9: in the result of clean_address whitespace runs are single spaces,
\* every comma is followed by exactly one space and preceded by none, and no
\* two commas stand with nothing but whitespace between them.
C9_AddressNormalized ==
    pc = "address_cleaned" =>
        /\ \A i \in 1..Len(cleaned) :
              cleaned[i] \in Whitespace =>
                  cleaned[i] = " " /\ (i < Len(cleaned) => cleaned[i + 1] \notin Whitespace)
        /\ \A i \in 1..Len(cleaned) :
              IsComma(cleaned, i) =>
                  /\ i < Len(cleaned) /\ cleaned[i + 1] = " "
                  /\ i > 1 => cleaned[i - 1] \notin Whitespace
                  /\ ~IsComma(cleaned, i + 1) /\ ~IsComma(cleaned, i + 2)

\* C10: a completed run's summary holds the original and final row counts,
\* the number and share removed, and every accumulated note, whatever
\* log_errors and debug_mode are.
C10_SummaryListsNotes ==
    pc = "done" =>
        /\ summary.printed
        /\ summary.original = Len(csv.rows)
        /\ summary.cleaned = Len(df_cleaned.rows)
        /\ summary.removed = Len(csv.rows) - Len(df_cleaned.rows)
        /\ summary.pct_num = summary.removed * 100 /\ summary.pct_den = summary.original
        /\ summary.notes = errors

====
